---- MODULE Spec2Model ----
(***************************************************************************)
(* A model of src/inlcude/Navigator.py: the Navigator constructor (volume  *)
(* handle, boot-sector geometry), Navigator.__applyFixup and               *)
(* Navigator.__parseRunlist.  Byte strings are sequences of 0..255; Python *)
(* slices, slice assignment and int.from_bytes are modelled by what they   *)
(* compute.                                                                *)
(***************************************************************************)
EXTENDS Integers, Sequences, FiniteSets, TLC

VARIABLES
    \* ---- Navigator.__init__ ----
    file_exists,   \* environment: whether open(file_name) finds the file
    encoding,      \* environment: the locale's preferred text encoding
    volume,        \* environment: the raw bytes of the volume
    handle,        \* the file object of the with statement: none/open/closed
    ctor_pc,       \* position of the constructor
    ctor_exc,      \* the exception the constructor raised, "" if none
    boot,          \* the local `boot`: what file.read(512) returned
    self,          \* the instance attributes set so far
    \* ---- Navigator.__applyFixup ----
    fx_input,      \* the buffer as it was before the first call
    fx_data,       \* the caller's buffer, passed as `data`
    fx_rets,       \* the values returned by the successive calls
    \* ---- Navigator.__parseRunlist ----
    rl_runs,       \* the runs the input was encoded from
    rl_input,      \* the argument `runlist` as passed
    runlist,       \* the local `runlist` (the remaining bytes)
    sector_list,   \* the local `sector_list`
    offset,        \* the local `offset`
    rl_pc,         \* loop / returned / raised
    rl_exc,        \* the exception __parseRunlist raised, "" if none
    iters          \* completed iterations of the while loop

ctorVars == <<file_exists, encoding, volume, handle, ctor_pc, ctor_exc, boot, self>>
fxVars == <<fx_input, fx_data, fx_rets>>
rlVars == <<rl_runs, rl_input, runlist, sector_list, offset, rl_pc, rl_exc, iters>>
vars == <<ctorVars, fxVars, rlVars>>

\* ------------------------------------------------------------------------
\* Bounds of the model
\* ------------------------------------------------------------------------
MaxRuns == 2            \* runs encoded into one runlist
MaxFixupEntries == 3    \* largest num_fixup_entries header value
MaxFixupCalls == 2      \* calls of __applyFixup on the same buffer

\* ------------------------------------------------------------------------
\* Python primitives
\* ------------------------------------------------------------------------
Min(a, b) == IF a < b THEN a ELSE b
Max(a, b) == IF a > b THEN a ELSE b

\* A slice index brought into 0..n, as Python does for s[i:j].
Norm(i, n) == IF i < 0 THEN Max(i + n, 0) ELSE Min(i, n)

\* s[a:b]
Slice(s, a, b) ==
    LET lo == Norm(a, Len(s))
        hi == Norm(b, Len(s))
    IN  IF hi <= lo THEN <<>> ELSE SubSeq(s, lo + 1, hi)

\* s[a:]
SliceFrom(s, a) == Slice(s, a, Len(s))

\* bytearray s after  s[a:b] = v  (the slice is replaced, the length may change)
SliceAssign(s, a, b, v) ==
    LET lo == Norm(a, Len(s))
        hi == Max(Norm(b, Len(s)), lo)
    IN  SubSeq(s, 1, lo) \o v \o SubSeq(s, hi + 1, Len(s))

RECURSIVE LEValue(_)
LEValue(s) == IF s = <<>> THEN 0 ELSE Head(s) + 256 * LEValue(Tail(s))

RECURSIVE Pow256(_)
Pow256(n) == IF n = 0 THEN 1 ELSE 256 * Pow256(n - 1)

\* Navigator.__unpack: int.from_bytes(data, byteorder='little', signed=signed)
unpack(data, signed) ==
    IF signed /\ data # <<>> /\ data[Len(data)] >= 128
    THEN LEValue(data) - Pow256(Len(data))
    ELSE LEValue(data)

\* int.from_bytes accepts bytes-like objects only; a str raises TypeError.
unpackRaises(value) == value.type # "bytes"

\* ------------------------------------------------------------------------
\* Navigator.__init__
\* ------------------------------------------------------------------------
BootLen == 512          \* file.read(512)
EntrySize == 1024       \* self.bytes_per_entry

\* open(file_name, 'r'): the mode the constructor opens the volume in.
OpenMode == "r"

NoAttrs == [a \in {} |-> 0]
NoValue == [type |-> "none", data |-> <<>>]

\* A 512-byte boot sector: bytesPerSector at offset 11, sectorsPerCluster at
\* offset 13, mftStartCluster at offset 48, zero elsewhere.
BootSector(bps, spc, mft) ==
    [i \in 1..BootLen |->
        CASE i \in 12..13 -> bps[i - 11]
          [] i = 14       -> spc
          [] i \in 49..51 -> mft[i - 48]
          [] OTHER        -> 0]

Volumes ==
    { BootSector(bps, spc, mft) :
        bps \in {<<0, 2>>, <<0, 16>>},
        spc \in {1, 8, 13, 128},
        mft \in {<<4, 0, 0>>, <<0, 12, 0>>, <<13, 10, 0>>} }

\* Universal-newline translation of a text-mode read, on s[lo..hi]: "\r" becomes
\* "\n" and a "\n" right after a "\r" is dropped ("\r\n" becomes "\n").
RECURSIVE NewlinesRange(_, _, _)
NewlinesRange(s, lo, hi) ==
    IF lo > hi THEN <<>>
    ELSE IF lo = hi
         THEN IF s[lo] = 13 THEN <<10>>
              ELSE IF s[lo] = 10 /\ lo > 1 /\ s[lo - 1] = 13 THEN <<>>
              ELSE <<s[lo]>>
         ELSE LET mid == (lo + hi) \div 2
              IN  NewlinesRange(s, lo, mid) \o NewlinesRange(s, mid + 1, hi)

Newlines(s) == NewlinesRange(s, 1, Len(s))

\* Whether decoding the bytes as text fails: under UTF-8 a continuation byte
\* (0x80..0xBF) at the start or right after an ASCII byte is an invalid start
\* byte; every byte is valid latin-1.
DecodeFails(bytes, enc) ==
    /\ enc = "utf-8"
    /\ \E i \in 1..Len(bytes) :
          /\ bytes[i] \in 128..191
          /\ (i = 1 \/ bytes[i - 1] < 128)

\* file.read(n) on a file opened in `mode`: bytes in binary mode; in text mode
\* a str of at most n decoded, newline-translated characters.
FileRead(mode, bytes, n) ==
    IF mode = "rb"
    THEN [type |-> "bytes", data |-> Slice(bytes, 0, n)]
    ELSE [type |-> "str", data |-> Slice(Newlines(bytes), 0, n)]

FileReadRaises(mode, bytes, enc) == mode # "rb" /\ DecodeFails(bytes, enc)

\* An exit that leaves the handle as it is.
FileExitLeak(h) == h

\* The with statement's exit (the file object's __exit__): the handle is closed.
FileExit(h) == "closed"

InitCtorIdle ==
    /\ file_exists = FALSE
    /\ encoding = "utf-8"
    /\ volume = <<>>
    /\ handle = "none"
    /\ ctor_pc = "idle"
    /\ ctor_exc = ""
    /\ boot = NoValue
    /\ self = NoAttrs

InitCtor ==
    /\ file_exists \in BOOLEAN
    /\ encoding \in {"utf-8", "latin-1"}
    /\ volume \in Volumes
    /\ handle = "none"
    /\ ctor_pc = "start"
    /\ ctor_exc = ""
    /\ boot = NoValue
    /\ self = NoAttrs

\* line 15: open(file_name, 'r')
CtorOpen ==
    /\ ctor_pc = "start"
    /\ IF file_exists
       THEN /\ handle' = "open"
            /\ ctor_pc' = "opened"
            /\ UNCHANGED ctor_exc
       ELSE /\ ctor_pc' = "raised"
            /\ ctor_exc' = "FileNotFoundError"
            /\ UNCHANGED handle
    /\ UNCHANGED <<file_exists, encoding, volume, boot, self>>
    /\ UNCHANGED <<fxVars, rlVars>>

\* lines 17-20: self.file_name = file_name; file.seek(0); boot = file.read(512)
CtorReadBoot ==
    /\ ctor_pc = "opened"
    /\ self' = [a \in {"file_name"} |-> "volume"]
    /\ IF FileReadRaises(OpenMode, volume, encoding)
       THEN /\ ctor_pc' = "failing"
            /\ ctor_exc' = "UnicodeDecodeError"
            /\ UNCHANGED boot
       ELSE /\ ctor_pc' = "read"
            /\ boot' = FileRead(OpenMode, volume, BootLen)
            /\ UNCHANGED ctor_exc
    /\ UNCHANGED <<file_exists, encoding, volume, handle>>
    /\ UNCHANGED <<fxVars, rlVars>>

\* lines 22-30: the three __unpack calls, the geometry, __getMFTSectors (a stub
\* returning None, modelled as the empty sector list).
CtorGeometry ==
    /\ ctor_pc = "read"
    /\ IF unpackRaises(boot)
       THEN /\ ctor_pc' = "failing"
            /\ ctor_exc' = "TypeError"
            /\ UNCHANGED self
       ELSE LET bytes_per_sector == unpack(Slice(boot.data, 11, 13), FALSE)
                sectors_per_cluster == unpack(Slice(boot.data, 13, 14), FALSE)
                mft_starting_cluster == unpack(Slice(boot.data, 48, 56), FALSE)
            IN  /\ self' = [a \in {"file_name", "bytes_per_cluster", "bytes_per_entry",
                                   "mft_byte_offset", "mft_sectors"} |->
                              CASE a = "file_name" -> self.file_name
                                [] a = "bytes_per_cluster" ->
                                       bytes_per_sector * sectors_per_cluster
                                [] a = "bytes_per_entry" -> EntrySize
                                [] a = "mft_byte_offset" ->
                                       mft_starting_cluster * sectors_per_cluster
                                           * bytes_per_sector
                                [] OTHER -> <<>>]
                /\ ctor_pc' = "body_done"
                /\ UNCHANGED ctor_exc
    /\ UNCHANGED <<file_exists, encoding, volume, handle, boot>>
    /\ UNCHANGED <<fxVars, rlVars>>

\* line 15: leaving the with block, normally or by an exception
CtorWithExit ==
    /\ ctor_pc \in {"body_done", "failing"}
    /\ handle' = FileExit(handle)
    /\ ctor_pc' = IF ctor_pc = "failing" THEN "raised" ELSE "returned"
    /\ UNCHANGED <<file_exists, encoding, volume, ctor_exc, boot, self>>
    /\ UNCHANGED <<fxVars, rlVars>>

NextCtor == CtorOpen \/ CtorReadBoot \/ CtorGeometry \/ CtorWithExit

\* ------------------------------------------------------------------------
\* Navigator.__applyFixup
\* ------------------------------------------------------------------------
SectorSize == 512

\* The for loop of lines 63-64, from iteration i on, on the bytearray data_bytes.
RECURSIVE fixupLoop(_, _, _, _)
fixupLoop(data_bytes, fixup, i, num_fixup_entries) ==
    IF i >= num_fixup_entries THEN data_bytes
    ELSE fixupLoop(SliceAssign(data_bytes, (SectorSize * i) - 2, SectorSize * i,
                               Slice(fixup, 2 * i, (2 * i) + 2)),
                   fixup, i + 1, num_fixup_entries)

\* The bytearray the loop builds as data_bytes.
patchedCopy(data) ==
    LET offset_to_fixup == unpack(Slice(data, 4, 6), FALSE)
        num_fixup_entries == unpack(Slice(data, 6, 8), FALSE)
        fixup == Slice(data, offset_to_fixup + 2,
                       offset_to_fixup + 2 * num_fixup_entries)
    IN  fixupLoop(data, fixup, 0, num_fixup_entries)

\* The mutation as it would be on the argument itself (data_bytes aliasing data).
applyFixupInPlace(data) ==
    [data |-> patchedCopy(data), data_bytes |-> patchedCopy(data),
     ret |-> patchedCopy(data)]

\* One call of __applyFixup: the caller's buffer after the call, the local
\* data_bytes (a copy: bytearray(data)), and the value returned (bytes(data)).
applyFixup(data) ==
    [data |-> data, data_bytes |-> patchedCopy(data), ret |-> data]

\* A record buffer: offset_to_fixup at 4, num_fixup_entries at 6, the fixup array
\* (the update-sequence number 01 00, then entry k = A0+k B0+k) at offset_to_fixup,
\* and `tail` in the last two bytes of every 512-byte sector.
RecordBuffer(len, off, num, tail) ==
    [i \in 1..len |->
        LET p == i - 1
        IN  CASE p = 4 -> off % 256
              [] p = 5 -> off \div 256
              [] p = 6 -> num % 256
              [] p = 7 -> num \div 256
              [] p \in off..(off + 1) -> <<1, 0>>[p - off + 1]
              [] p >= off + 2 /\ p < off + 2 * num ->
                     IF (p - off) % 2 = 0 THEN 160 + ((p - off) \div 2)
                                          ELSE 176 + ((p - off) \div 2)
              [] p % SectorSize >= SectorSize - 2 -> tail[(p % SectorSize) - SectorSize + 3]
              [] OTHER -> 0]

RecordBuffers ==
    { RecordBuffer(len, off, num, tail) :
        len \in {7, 512, 1024, 1536},
        off \in {42, 48},
        num \in 0..MaxFixupEntries,
        tail \in {<<1, 0>>, <<2, 0>>} }

InitFixupIdle ==
    /\ fx_input = <<>>
    /\ fx_data = <<>>
    /\ fx_rets = <<>>

InitFixup ==
    /\ fx_input \in RecordBuffers
    /\ fx_data = fx_input
    /\ fx_rets = <<>>

\* A call self.__applyFixup(fx_data), lines 57-66.
ApplyFixup ==
    /\ ctor_pc = "idle" /\ rl_pc = "idle"
    /\ Len(fx_rets) < MaxFixupCalls
    /\ fx_data' = applyFixup(fx_data).data
    /\ fx_rets' = Append(fx_rets, applyFixup(fx_data).ret)
    /\ UNCHANGED fx_input
    /\ UNCHANGED <<ctorVars, rlVars>>

NextFixup == ApplyFixup

\* ------------------------------------------------------------------------
\* Navigator.__parseRunlist
\* ------------------------------------------------------------------------
\* The runs the inputs are encoded from: the bytes of the length field and of
\* the offset field; the header's nibbles are the two field sizes.
RunSamples ==
    { [lenBytes |-> <<5>>,      offBytes |-> <<0, 16>>],     \* 21 05 00 10
      [lenBytes |-> <<2>>,      offBytes |-> <<10>>],        \* 11 02 0A
      [lenBytes |-> <<128>>,    offBytes |-> <<3>>],         \* 11 80 03
      [lenBytes |-> <<3>>,      offBytes |-> <<254>>],       \* 11 03 FE
      [lenBytes |-> <<3>>,      offBytes |-> <<>>],          \* 01 03 (sparse)
      [lenBytes |-> <<>>,       offBytes |-> <<5>>],         \* 10 05
      [lenBytes |-> <<128, 0>>, offBytes |-> <<7>>],         \* 12 80 00 07
      [lenBytes |-> <<1>>,      offBytes |-> <<0, 0, 1>>],   \* 31 01 00 00 01
      [lenBytes |-> <<0>>,      offBytes |-> <<4>>] }        \* 11 00 04

EncodeRun(r) ==
    <<16 * Len(r.offBytes) + Len(r.lenBytes)>> \o r.lenBytes \o r.offBytes

RECURSIVE EncodeRuns(_)
EncodeRuns(runs) ==
    IF runs = <<>> THEN <<>> ELSE EncodeRun(Head(runs)) \o EncodeRuns(Tail(runs))

\* The runs followed by the 0x00 header that ends the runlist.
Encode(runs) == EncodeRuns(runs) \o <<0>>

RunSeqs == UNION { [1..n -> RunSamples] : n \in 0..MaxRuns }

\* line 87: offset_length = runlist[0] >> 4
offsetLength(header) == header \div 16

\* line 88: length_length = runlist[0] & 0x0F
lengthLength(header) == header % 16

\* line 91: length = self.__unpack(runlist[1 : length_length + 1], signed=True)
runLength(rl, length_length) ==
    unpack(Slice(rl, 1, length_length + 1), TRUE)

\* lines 96-98: the delta added to offset
runDelta(rl, length_length, offset_length) ==
    unpack(Slice(rl, length_length + 1, length_length + 1 + offset_length), TRUE)

\* lines 101-102: for i in range(length): sector_list.append(offset + i)
appendRun(list, off, length) ==
    IF length <= 0 THEN list ELSE list \o [i \in 1..length |-> off + i - 1]

\* The buffer left as it is.
advanceNone(rl, length_length, offset_length) == rl

\* line 103: runlist = runlist[length_length + 1 + offset_length :]
advance(rl, length_length, offset_length) ==
    SliceFrom(rl, length_length + 1 + offset_length)

InitRunlistIdle ==
    /\ rl_runs = <<>>
    /\ rl_input = <<>>
    /\ runlist = <<>>
    /\ sector_list = <<>>
    /\ offset = 0
    /\ rl_pc = "idle"
    /\ rl_exc = ""
    /\ iters = 0

\* lines 78-79, on any prefix of an encoded runlist
InitRunlist ==
    /\ rl_runs \in RunSeqs
    /\ \E cut \in 0..Len(Encode(rl_runs)) : rl_input = SubSeq(Encode(rl_runs), 1, cut)
    /\ runlist = rl_input
    /\ sector_list = <<>>
    /\ offset = 0
    /\ rl_pc = "loop"
    /\ rl_exc = ""
    /\ iters = 0

\* line 82 on an empty buffer: runlist[0] raises IndexError
RunlistIndexError ==
    /\ rl_pc = "loop"
    /\ runlist = <<>>
    /\ rl_pc' = "raised"
    /\ rl_exc' = "IndexError"
    /\ UNCHANGED <<rl_runs, rl_input, runlist, sector_list, offset, iters>>
    /\ UNCHANGED <<ctorVars, fxVars>>

\* lines 82, 105: the header is 0x00, the list is returned
RunlistReturn ==
    /\ rl_pc = "loop"
    /\ runlist # <<>>
    /\ runlist[1] = 0
    /\ rl_pc' = "returned"
    /\ UNCHANGED <<rl_runs, rl_input, runlist, sector_list, offset, rl_exc, iters>>
    /\ UNCHANGED <<ctorVars, fxVars>>

\* lines 82-103: one iteration of the while loop
RunlistIter ==
    /\ rl_pc = "loop"
    /\ runlist # <<>>
    /\ runlist[1] # 0
    /\ LET offset_length == offsetLength(runlist[1])
           length_length == lengthLength(runlist[1])
           length == runLength(runlist, length_length)
           newOffset == offset + runDelta(runlist, length_length, offset_length)
       IN  /\ offset' = newOffset
           /\ sector_list' = appendRun(sector_list, newOffset, length)
           /\ runlist' = advance(runlist, length_length, offset_length)
    /\ iters' = iters + 1
    /\ UNCHANGED <<rl_runs, rl_input, rl_pc, rl_exc>>
    /\ UNCHANGED <<ctorVars, fxVars>>

NextRunlist == RunlistIndexError \/ RunlistReturn \/ RunlistIter

\* ------------------------------------------------------------------------
\* Specifications
\* ------------------------------------------------------------------------
InitForCtor == InitCtor /\ InitFixupIdle /\ InitRunlistIdle

InitForFixup == InitCtorIdle /\ InitFixup /\ InitRunlistIdle

InitForRunlist == InitCtorIdle /\ InitFixupIdle /\ InitRunlist

SpecCtor == InitForCtor /\ [][NextCtor]_vars

SpecFixup == InitForFixup /\ [][NextFixup]_vars

SpecRunlist == InitForRunlist /\ [][NextRunlist]_vars

Init == InitForCtor \/ InitForFixup \/ InitForRunlist

Next == NextCtor \/ NextFixup \/ NextRunlist

Spec == Init /\ [][Next]_vars

\* ------------------------------------------------------------------------
\* Properties
\* ------------------------------------------------------------------------
CtorDone == ctor_pc \in {"returned", "raised"}
RunlistDone == rl_pc \in {"returned", "raised"}

\* Two's complement value of a little-endian field.
SignedLE(bytes) ==
    IF bytes # <<>> /\ bytes[Len(bytes)] >= 128
    THEN LEValue(bytes) - Pow256(Len(bytes))
    ELSE LEValue(bytes)

WellFormedRun(r) ==
    /\ Len(r.lenBytes) \in 1..8
    /\ Len(r.offBytes) \in 1..8
    /\ LEValue(r.lenBytes) > 0

\* The input is the whole encoding of well-formed runs, terminator included.
WellFormedInput ==
    /\ rl_input = Encode(rl_runs)
    /\ \A k \in 1..Len(rl_runs) : WellFormedRun(rl_runs[k])

\* The addresses of the runs: L consecutive addresses from the prefix sum of
\* the deltas, run after run.
RECURSIVE ExpectedAddresses(_, _)
ExpectedAddresses(runs, running) ==
    IF runs = <<>> THEN <<>>
    ELSE LET start == running + SignedLE(Head(runs).offBytes)
             L == LEValue(Head(runs).lenBytes)
         IN  [i \in 1..L |-> start + i - 1] \o ExpectedAddresses(Tail(runs), start)

\* C1: for every well-formed runlist __parseRunlist returns exactly the
\* concatenation, in run order, of the L consecutive addresses of each run,
\* starting at the prefix sum of the deltas.
C1_RunlistRoundTrip ==
    (RunlistDone /\ WellFormedInput) =>
        /\ rl_pc = "returned"
        /\ sector_list = ExpectedAddresses(rl_runs, 0)

\* The bytes the claim of C2 describes for a buffer `data` with at least
\* num_fixup_entries * 512 bytes.
FixedBuffer(data) ==
    LET off == LEValue(Slice(data, 4, 6))
        num == LEValue(Slice(data, 6, 8))
    IN  [i \in 1..Len(data) |->
            LET p == i - 1
                k == p \div SectorSize
            IN  IF k <= num - 2 /\ p % SectorSize >= SectorSize - 2
                THEN data[off + 2 * (k + 1) + (p % SectorSize) - (SectorSize - 2) + 1]
                ELSE data[i]]

C3_Geometry ==
    (CtorDone /\ boot # NoValue) =>
        LET bytesPerSector == LEValue(Slice(volume, 11, 13))
            sectorsPerCluster == LEValue(Slice(volume, 13, 14))
            mftStartCluster == LEValue(Slice(volume, 48, 56))
        IN  /\ {"bytes_per_cluster", "bytes_per_entry", "mft_byte_offset"}
                   \subseteq DOMAIN self
            /\ self.bytes_per_cluster = bytesPerSector * sectorsPerCluster
            /\ self.bytes_per_entry = 1024
            /\ self.mft_byte_offset =
                   mftStartCluster * sectorsPerCluster * bytesPerSector

\* C4: the volume handle is released on every exit path of the constructor:
\* once the constructor has returned or raised, a handle that was opened is
\* closed, and the handle is open only inside the with block.
C4_HandleReleased ==
    /\ CtorDone => handle = IF file_exists THEN "closed" ELSE "none"
    /\ handle = "open" => ctor_pc \in {"opened", "read", "body_done", "failing"}

\* A failure while parsing the boot sector, after which the handle is closed.
C4_Witness ==
    /\ ctor_pc = "raised"
    /\ ctor_exc = "TypeError"
    /\ boot # NoValue
    /\ handle = "closed"

\* C5: the boot-sector value the constructor reads and hands to the integer
\* unpacking is the volume's first 512 raw bytes, with no text decoding or
\* line-ending translation, and geometry derivation succeeds on a boot sector.
C5_BinaryRead ==
    /\ boot # NoValue =>
           boot = [type |-> "bytes", data |-> Slice(volume, 0, BootLen)]
    /\ (CtorDone /\ file_exists) => ctor_pc = "returned"

\* C6: __applyFixup is a pure function of its input bytes: a call leaves the
\* input buffer and the Navigator's attributes as they were, and successive
\* calls on the same buffer return byte-identical values.
C6_FixupPure ==
    /\ fx_data = fx_input
    /\ \A i \in 1..Len(fx_rets) : \A j \in 1..Len(fx_rets) : fx_rets[i] = fx_rets[j]
    /\ fx_rets # <<>> => self = NoAttrs

\* Two calls on a two-sector record with two or more fixup entries.
C6_Witness ==
    /\ Len(fx_rets) >= 2
    /\ Len(fx_input) >= 2 * SectorSize
    /\ LEValue(Slice(fx_input, 6, 8)) >= 2

\* C7: a run whose length field has its most significant bit set emits exactly
\* L addresses, L the unsigned little-endian value of the field.
C7_UnsignedLength ==
    [][ (iters' = iters + 1
           /\ rl_input = Encode(rl_runs)
           /\ lengthLength(runlist[1]) >= 1
           /\ runlist[1 + lengthLength(runlist[1])] >= 128)
        => Len(sector_list') = Len(sector_list)
               + LEValue(SubSeq(runlist, 2, 1 + lengthLength(runlist[1]))) ]_vars

\* C8: a run whose header has offsetFieldSize = 0 contributes no addresses and
\* leaves the running offset unchanged.
C8_SparseRun ==
    [][ (iters' = iters + 1
           /\ rl_input = Encode(rl_runs)
           /\ offsetLength(runlist[1]) = 0)
        => (sector_list' = sector_list /\ offset' = offset) ]_vars

\* The input has a run header with lengthFieldSize = 0, or lacks bytes its
\* headers declare (the terminator included).
MalformedInput ==
    \/ rl_input # Encode(rl_runs)
    \/ \E k \in 1..Len(rl_runs) : rl_runs[k].lenBytes = <<>>

\* C9: __parseRunlist fails with a MalformedRunlistError, and returns no list,
\* whenever a run header has lengthFieldSize = 0 or the buffer is shorter than
\* the bytes its headers declare.
C9_MalformedRejected ==
    (RunlistDone /\ MalformedInput) =>
        (rl_pc = "raised" /\ rl_exc = "MalformedRunlistError")

\* C10: every iteration of the loop removes at least one byte of the remaining
\* buffer, so the loop runs at most len(input) iterations before
\* __parseRunlist returns or stops with an error.
C10_LoopBounded ==
    /\ iters + Len(runlist) <= Len(rl_input)
    /\ iters <= Len(rl_input)

\* The loop has run twice or more and stopped.
C10_Witness == RunlistDone /\ iters >= 2

====
